---- MODULE Spec2Model ----
(***************************************************************************)
(* Model of the parquet catalog core of py-api-catalog:                    *)
(*   - CatalogDataService (services/CatalogDataService.py): the path       *)
(*     resolver get_parquet_path, put_parquet_data, get_parquet_data,      *)
(*     get_parquet_last_updated, get_duckdb and get_duckdb_for_partitions; *)
(*   - DuckDbParquet (infrastructure/DuckDbParquet.py): the construction   *)
(*     of a handle, i.e. the attachment of the parquet files under a       *)
(*     prefix as a view (glob, pre-signed URLs, per-partition views);      *)
(*   - S3Bucket (infrastructure/S3Bucket.py): the object store.            *)
(*                                                                         *)
(* Text.  A Python str is modelled as a sequence of symbols.  A symbol is  *)
(* a piece of text that is never split: one character ("/", "=", "t", "2") *)
(* or one of the fixed words "catalog-data", "data", ".parquet", "_part_". *)
(* No symbol is a prefix of another one, so concatenation, startswith,     *)
(* endswith, split and the byte order of keys behave on symbol sequences   *)
(* as they do on the characters.                                           *)
(***************************************************************************)
EXTENDS Integers, Sequences, FiniteSets, TLC

VARIABLES
    store,      \* S3 bucket: key -> payload, for the keys that exist
    filedb,     \* views persisted in the on-disk DuckDB database file
    con,        \* DuckDbParquet._con of the handle built last: [path, views, open]
    att,        \* the DuckDbParquet construction in progress / finished last
    log,        \* statements and requests issued by that construction, in order
    nAttach,    \* number of constructions started
    pathA,      \* first argument tuple handed to get_parquet_path
    pathB,      \* second argument tuple handed to get_parquet_path
    resA,       \* get_parquet_path(pathA), once computed
    resB,       \* get_parquet_path(pathB), once computed
    lastPut,    \* history: key -> the last put addressed to that key
    rd,         \* the get_parquet_data call made last and its result
    wr,         \* concurrent put_parquet_data calls: writer -> its position
    lm,         \* the get_parquet_last_updated call in progress / made last
    mtime,      \* LastModified of the objects: key -> time of its last put
    clock,      \* the time of the store
    eng         \* concurrent get_duckdb calls and the engine's databases

vars == <<store, filedb, con, att, log, nAttach, pathA, pathB, resA, resB,
          lastPut, rd, wr, lm, mtime, clock, eng>>
attVars == <<store, filedb, con, att, log, nAttach>>
pathVars == <<pathA, pathB, resA, resB>>
dataVars == <<lastPut, rd>>
concVars == <<wr, lm, mtime, clock>>

None == "None"

-----------------------------------------------------------------------------
(* Text helpers (Python str operations on symbol sequences).               *)

\* Symbols in byte order of their first character: '.' < '/' < digits < '='
\* < '_' < lower-case letters.
SymbolOrder ==
    << ".parquet", "/", "0", "1", "2", "3", "4", "5", "6", "7", "8", "9", "=",
       "_part_", "a", "b", "catalog-data", "data", "k", "m", "o", "s", "t",
       "v", "w" >>

Rank(sym) == CHOOSE i \in 1..Len(SymbolOrder) : SymbolOrder[i] = sym

\* str.startswith
StartsWith(s, p) == Len(p) <= Len(s) /\ SubSeq(s, 1, Len(p)) = p

\* str.endswith
EndsWith(s, p) == Len(p) <= Len(s) /\ SubSeq(s, Len(s) - Len(p) + 1, Len(s)) = p

\* sep.join(list)
RECURSIVE Join(_, _)
Join(sep, list) ==
    IF list = <<>> THEN <<>>
    ELSE IF Len(list) = 1 THEN list[1]
    ELSE list[1] \o sep \o Join(sep, Tail(list))

\* str.rstrip('/')
RECURSIVE RStripSlash(_)
RStripSlash(s) ==
    IF s # <<>> /\ s[Len(s)] = "/" THEN RStripSlash(SubSeq(s, 1, Len(s) - 1)) ELSE s

\* str.split('/')[-1]: the text after the last "/"
RECURSIVE LastSegment(_)
LastSegment(s) ==
    IF s = <<>> THEN <<>>
    ELSE IF s[Len(s)] = "/" THEN <<>>
    ELSE LastSegment(SubSeq(s, 1, Len(s) - 1)) \o <<s[Len(s)]>>

\* byte-wise string order (the order in which S3 lists keys)
RECURSIVE LexLess(_, _)
LexLess(a, b) ==
    IF b = <<>> THEN FALSE
    ELSE IF a = <<>> THEN TRUE
    ELSE IF a[1] = b[1] THEN LexLess(Tail(a), Tail(b))
    ELSE Rank(a[1]) < Rank(b[1])

\* the elements of a set of keys as a sequence in listing order
RECURSIVE SortKeys(_)
SortKeys(S) ==
    IF S = {} THEN <<>>
    ELSE LET m == CHOOSE x \in S : \A y \in S \ {x} : LexLess(x, y)
         IN <<m>> \o SortKeys(S \ {m})

Digits == << "0", "1", "2", "3", "4", "5", "6", "7", "8", "9" >>

\* f"{i:04d}" for 0 <= i <= 9999
Pad4(i) ==
    << Digits[((i \div 1000) % 10) + 1], Digits[((i \div 100) % 10) + 1],
       Digits[((i \div 10) % 10) + 1], Digits[(i % 10) + 1] >>

-----------------------------------------------------------------------------
(* Path resolver: CatalogDataService.get_parquet_path.                     *)
(* partitions is None or a dict, modelled as the sequence of its (k, v)    *)
(* items in insertion order (dict.items()).                                *)

\* f"{k}={v}"
PartSegment(item) == item[1] \o <<"=">> \o item[2]

PartSegments(partitions) == [i \in 1..Len(partitions) |-> PartSegment(partitions[i])]

\* `if partitions:` - None and the empty dict are both falsy
Truthy(partitions) == partitions # None /\ partitions # <<>>

\* Variant that puts the partition items in key order before joining them.
RECURSIVE ItemsByKey(_)
ItemsByKey(items) ==
    IF items = <<>> THEN <<>>
    ELSE LET i == CHOOSE x \in 1..Len(items) :
                    \A y \in 1..Len(items) : ~LexLess(items[y][1], items[x][1])
         IN <<items[i]>> \o ItemsByKey([j \in 1..(Len(items) - 1) |->
                                          IF j < i THEN items[j] ELSE items[j + 1]])

get_parquet_path_sorted(organization, dataset, table, partitions) ==
    LET parts == Join(<<"/">>, <<organization, dataset, table>>)
        parts2 == IF Truthy(partitions)
                  THEN parts \o <<"/">>
                       \o Join(<<"/">>, PartSegments(ItemsByKey(partitions)))
                  ELSE parts
    IN <<"catalog-data", "/">> \o parts2 \o <<"/", "data", ".parquet">>

get_parquet_path(organization, dataset, table, partitions) ==
    LET parts == Join(<<"/">>, <<organization, dataset, table>>)
        parts2 == IF Truthy(partitions)
                  THEN parts \o <<"/">> \o Join(<<"/">>, PartSegments(partitions))
                  ELSE parts
    IN <<"catalog-data", "/">> \o parts2 \o <<"/", "data", ".parquet">>

\* Names used as inputs
Org == <<"o">>
Dataset == <<"s">>
TableT == <<"t">>
TableT2 == <<"t", "2">>

-----------------------------------------------------------------------------
(* Object store: S3Bucket.  store maps each existing key to its payload.   *)

Keys == DOMAIN store

\* Variant that adds the rows of the new payload to those of the old one.
put_bytes_merge(s, key, data) ==
    [k \in (DOMAIN s) \cup {key} |->
        IF k # key THEN s[k]
        ELSE IF k \in DOMAIN s /\ s[k].codec = "snappy" /\ data.codec = "snappy"
             THEN [data EXCEPT !.rows = s[k].rows \o data.rows]
             ELSE data]

\* Variant that leaves an existing object as it is.
put_bytes_keep(s, key, data) ==
    [k \in (DOMAIN s) \cup {key} |-> IF k = key /\ k \notin DOMAIN s THEN data ELSE s[k]]

\* s3_client.put_object: creates or overwrites exactly one key
put_bytes(s, key, data) ==
    [k \in (DOMAIN s) \cup {key} |-> IF k = key THEN data ELSE s[k]]

\* s3_client.delete_object
delete_object(s, key) == [k \in (DOMAIN s) \ {key} |-> s[k]]

\* Variant with the delimiter "/": only the objects directly under the prefix.
list_objects_shallow(s, prefix) ==
    SortKeys({k \in DOMAIN s :
                /\ StartsWith(k, prefix)
                /\ \A i \in (Len(prefix) + 1)..Len(k) : k[i] # "/"})

\* S3Bucket.list_objects(prefix, delimiter=""): every object whose key starts
\* with the prefix, as "file" entries in the order S3 lists them
list_objects(s, prefix) == SortKeys({k \in DOMAIN s : StartsWith(k, prefix)})

-----------------------------------------------------------------------------
(* CatalogDataService.put_parquet_data.  A DataFrame is [columns, rows,     *)
(* index]; a row is a sequence of cell values, one per column, and index   *)
(* holds the row labels.  A cell value is a piece of text.                 *)

ColumnIndex(df, name) == CHOOSE i \in 1..Len(df.columns) : df.columns[i] = name

\* Variant that always adds a new last column.
SetColumn_append(df, name, value) ==
    [columns |-> Append(df.columns, name),
     rows |-> [r \in 1..Len(df.rows) |-> Append(df.rows[r], value)],
     index |-> df.index]

\* df_to_save[partition_key] = partition_value: overwrite the column when it
\* exists, append it otherwise; every row gets the literal value
SetColumn(df, name, value) ==
    IF \E i \in 1..Len(df.columns) : df.columns[i] = name
    THEN [df EXCEPT !.rows = [r \in 1..Len(df.rows) |->
                                [df.rows[r] EXCEPT ![ColumnIndex(df, name)] = value]]]
    ELSE [columns |-> Append(df.columns, name),
          rows |-> [r \in 1..Len(df.rows) |-> Append(df.rows[r], value)],
          index |-> df.index]

RECURSIVE AddPartitionColumns(_, _)
AddPartitionColumns(df, items) ==
    IF items = <<>> THEN df
    ELSE AddPartitionColumns(SetColumn(df, items[1][1], items[1][2]), Tail(items))

\* df.to_parquet(index=False, compression="snappy"): the columns and the rows,
\* without the index
ToParquet(df) == [codec |-> "snappy", columns |-> df.columns, rows |-> df.rows]

put_parquet_data(s, df, organization, dataset, table, partitions) ==
    LET df_to_save == IF Truthy(partitions)
                      THEN AddPartitionColumns(df, partitions)
                      ELSE df
        file_path == get_parquet_path(organization, dataset, table, partitions)
    IN put_bytes(s, file_path, ToParquet(df_to_save))

-----------------------------------------------------------------------------
(* CatalogDataService.get_parquet_data and what it calls.  A call yields   *)
(* [outcome, error, value, keys]: keys are the objects it asked the store  *)
(* for, in order.                                                          *)

\* S3Bucket.get_bytes: the payload, or the ClientError of get_object for a
\* key that does not exist
get_bytes(s, key) ==
    IF key \in DOMAIN s THEN [ok |-> TRUE, data |-> s[key]]
    ELSE [ok |-> FALSE, error |-> "ObjectNotFound"]

\* pd.read_parquet(BytesIO(data)): the columns and rows of the file under a
\* fresh RangeIndex; bytes that are no parquet file are an error
read_parquet(data) ==
    IF data.codec = "snappy"
    THEN [ok |-> TRUE,
          df |-> [columns |-> data.columns, rows |-> data.rows,
                  index |-> [i \in 1..Len(data.rows) |-> i - 1]]]
    ELSE [ok |-> FALSE, error |-> "ArrowInvalid"]

\* Variant of list_partition_paths whose prefix lacks the closing "/".
list_partition_paths_open(s, organization, dataset, table) ==
    LET prefix == <<"catalog-data", "/">> \o organization \o <<"/">> \o dataset
                  \o <<"/">> \o table
    IN SelectSeq(list_objects(s, prefix),
                 LAMBDA f : EndsWith(f, <<"data", ".parquet">>))

\* Variant that keeps every listed file.
list_partition_paths_all(s, organization, dataset, table) ==
    LET prefix == <<"catalog-data", "/">> \o organization \o <<"/">> \o dataset
                  \o <<"/">> \o table \o <<"/">>
    IN list_objects(s, prefix)

\* CatalogDataService.list_partition_paths (through _list_files)
list_partition_paths(s, organization, dataset, table) ==
    LET prefix == <<"catalog-data", "/">> \o organization \o <<"/">> \o dataset
                  \o <<"/">> \o table \o <<"/">>
    IN SelectSeq(list_objects(s, prefix),
                 LAMBDA f : EndsWith(f, <<"data", ".parquet">>))

\* for path in partition_paths: get_bytes, read_parquet, dfs.append; the
\* first error ends the loop
RECURSIVE ReadEach(_, _)
ReadEach(s, paths) ==
    IF paths = <<>> THEN [ok |-> TRUE, dfs |-> <<>>, keys |-> <<>>]
    ELSE LET b == get_bytes(s, paths[1])
         IN IF ~b.ok THEN [ok |-> FALSE, error |-> b.error, keys |-> <<paths[1]>>]
            ELSE LET f == read_parquet(b.data)
                 IN IF ~f.ok
                    THEN [ok |-> FALSE, error |-> f.error, keys |-> <<paths[1]>>]
                    ELSE LET rest == ReadEach(s, Tail(paths))
                         IN IF rest.ok
                            THEN [ok |-> TRUE, dfs |-> <<f.df>> \o rest.dfs,
                                  keys |-> <<paths[1]>> \o rest.keys]
                            ELSE [rest EXCEPT !.keys = <<paths[1]>> \o rest.keys]

\* the column labels of the frames, each once, in order of first appearance
RECURSIVE UnionColumns(_, _)
UnionColumns(dfs, seen) ==
    IF dfs = <<>> THEN seen
    ELSE UnionColumns(Tail(dfs),
             seen \o SelectSeq(dfs[1].columns,
                               LAMBDA c : \A i \in 1..Len(seen) : seen[i] # c))

\* the missing value
NaN == <<"NaN">>

\* the cell of row r under a column label; NaN when the frame lacks the column
Cell(df, r, name) ==
    IF \E i \in 1..Len(df.columns) : df.columns[i] = name
    THEN df.rows[r][ColumnIndex(df, name)]
    ELSE NaN

RECURSIVE ConcatRows(_, _)
ConcatRows(dfs, cols) ==
    IF dfs = <<>> THEN <<>>
    ELSE [r \in 1..Len(dfs[1].rows) |->
             [c \in 1..Len(cols) |-> Cell(dfs[1], r, cols[c])]]
         \o ConcatRows(Tail(dfs), cols)

\* pd.concat(dfs, ignore_index=True): rows of all frames in order, aligned on
\* the union of the columns, under a fresh RangeIndex
concat(dfs) ==
    LET cols == UnionColumns(dfs, <<>>)
        rows == ConcatRows(dfs, cols)
    IN [columns |-> cols, rows |-> rows, index |-> [i \in 1..Len(rows) |-> i - 1]]

\* pd.DataFrame()
EmptyFrame == [columns |-> <<>>, rows |-> <<>>, index |-> <<>>]

Returned(value, keys) ==
    [outcome |-> "returned", error |-> None, value |-> value, keys |-> keys]

Raised(error, keys) ==
    [outcome |-> "raised", error |-> error, value |-> None, keys |-> keys]

\* Variant that answers a missing object with an empty frame.
get_parquet_data_lenient(s, organization, dataset, table, partitions) ==
    IF Truthy(partitions)
    THEN LET file_path == get_parquet_path(organization, dataset, table, partitions)
             data == get_bytes(s, file_path)
         IN IF ~data.ok THEN Returned(EmptyFrame, <<file_path>>)
            ELSE LET f == read_parquet(data.data)
                 IN IF f.ok THEN Returned(f.df, <<file_path>>)
                    ELSE Raised(f.error, <<file_path>>)
    ELSE LET got == ReadEach(s, list_partition_paths(s, organization, dataset, table))
         IN IF ~got.ok THEN Raised(got.error, got.keys)
            ELSE IF got.dfs # <<>> THEN Returned(concat(got.dfs), got.keys)
            ELSE Returned(EmptyFrame, got.keys)

\* CatalogDataService.get_parquet_data
get_parquet_data(s, organization, dataset, table, partitions) ==
    IF Truthy(partitions)
    THEN LET file_path == get_parquet_path(organization, dataset, table, partitions)
             data == get_bytes(s, file_path)
         IN IF ~data.ok THEN Raised(data.error, <<file_path>>)
            ELSE LET f == read_parquet(data.data)
                 IN IF f.ok THEN Returned(f.df, <<file_path>>)
                    ELSE Raised(f.error, <<file_path>>)
    ELSE LET got == ReadEach(s, list_partition_paths(s, organization, dataset, table))
         IN IF ~got.ok THEN Raised(got.error, got.keys)
            ELSE IF got.dfs # <<>> THEN Returned(concat(got.dfs), got.keys)
            ELSE Returned(EmptyFrame, got.keys)

-----------------------------------------------------------------------------
(* DuckDB connection: the views of a database are a set of [name, kind,    *)
(* src] entries.                                                           *)

\* The same statement without the replacement: the old entry stays.
CreateOrReplaceView_keep(views, name, kind, src) ==
    views \cup {[name |-> name, kind |-> kind, src |-> src]}

\* CREATE OR REPLACE VIEW name AS ...: drops the view of that name, if any,
\* and records the new one
CreateOrReplaceView(views, name, kind, src) ==
    {v \in views : v.name # name} \cup {[name |-> name, kind |-> kind, src |-> src]}

\* The view name is spliced unquoted into the statement: DuckDB parses it
\* only if it is a plain identifier (no "=", "/", "." or "-", no leading digit).
ValidIdent(name) ==
    /\ name # <<>>
    /\ \A i \in 1..Len(name) : name[i] \notin {"=", "/", ".parquet", "catalog-data"}
    /\ \A d \in 1..Len(Digits) : name[1] # Digits[d]

\* self._con.execute("CREATE OR REPLACE VIEW {name} AS SELECT * FROM
\* read_parquet(...)"): the result of the statement.  readable: the engine
\* could open what read_parquet names (the view is bound when it is created).
\* A view of that name in the database is no error (CatalogException) for
\* CREATE OR REPLACE.
ExecuteCreate(views, name, readable) ==
    IF ~ValidIdent(name) THEN "ParserException"
    ELSE IF ~readable THEN "IOException"
    ELSE "ok"

ExpiresIn == 3600

\* s3_client.generate_presigned_url('get_object', Key=file_key, ExpiresIn=3600)
PresignedUrl(file_key) == [key |-> file_key, expires |-> ExpiresIn]

\* Variant without the suffix test: every listed object counts.
_find_all_parquet_files_any(s, prefix) == list_objects(s, prefix)

\* Variant that lists with delimiter "/": the objects directly under the
\* prefix only.
_find_all_parquet_files_flat(s, prefix) ==
    SelectSeq(list_objects_shallow(s, prefix), LAMBDA k : EndsWith(k, <<".parquet">>))

\* DuckDbParquet._find_all_parquet_files
_find_all_parquet_files(s, prefix) ==
    SelectSeq(list_objects(s, prefix), LAMBDA k : EndsWith(k, <<".parquet">>))

\* The objects the pattern s3://{bucket}/{prefix}**/*.parquet matches
GlobPattern(prefix) == <<"s3://bucket/">> \o prefix \o <<"**/*", ".parquet">>

GlobMatches(s, prefix) ==
    {k \in DOMAIN s : StartsWith(k, prefix) /\ EndsWith(k, <<".parquet">>)}

\* table_name = self.parquet_prefix.rstrip('/').split('/')[-1]
TableNameOf(parquet_prefix) == LastSegment(RStripSlash(parquet_prefix))

-----------------------------------------------------------------------------
(* Inputs of the attachment specification.                                 *)

MaxAttach == 2

Tables == {TableT}

ItemAB == << <<"a">>, <<"b">> >>
ItemAV == << <<"a">>, <<"v">> >>

\* a sibling of a=b whose segment starts with the text "a=b"
ItemAB2 == << <<"a">>, <<"b", "2">> >>

WritePartitions == { None, <<ItemAB>>, <<ItemAB2>> }

ViewPartitions == { <<ItemAB>> }

Frames == { [columns |-> << <<"m">> >>, rows |-> << << <<"1">> >> >>, index |-> <<3>>] }

\* A key written through the gateway by another producer: not a parquet file
OtherKeys == { <<"catalog-data", "/">> \o Org \o <<"/">> \o Dataset \o <<"/">>
               \o TableT \o <<"/", "m">> }

DuckDbPaths == { "file" }

Idle ==
    [pc |-> "idle", via |-> None, table |-> <<>>, partitions |-> <<>>,
     parquet_prefix |-> <<>>,
     table_name |-> <<>>, files |-> <<>>, asked |-> 0, urls |-> <<>>,
     tried |-> 0, view_names |-> <<>>, had_view |-> FALSE, outcome |-> "none",
     error |-> None, attempts |-> <<>>]

NoCon == [path |-> None, views |-> {}, open |-> FALSE]

\* no get_parquet_data call made yet
NoRead == [pc |-> "idle"]

Writers == {1, 2}

\* no put_parquet_data call in progress
NoWriters == [w \in Writers |-> [pc |-> "idle"]]

\* no get_parquet_last_updated call in progress
NoCall == [pc |-> "idle"]

Callers == {1, 2}

\* the databases of the engine, each with its views: 0 is the database file,
\* c the in-memory database of the connection that caller c opened
Databases == {0} \cup Callers

\* no get_duckdb call in progress, no view in any database
NoEngine ==
    [calls |-> [c \in Callers |-> [att |-> Idle, db |-> 0, own |-> {}]],
     dbs |-> [d \in Databases |-> {}]]

Init ==
    /\ store = <<>>
    /\ filedb = {}
    /\ con = NoCon
    /\ att = Idle
    /\ log = <<>>
    /\ nAttach = 0
    /\ pathA = [organization |-> Org, dataset |-> Dataset, table |-> TableT,
                partitions |-> None]
    /\ pathB = pathA
    /\ resA = None
    /\ resB = None
    /\ lastPut = <<>>
    /\ rd = NoRead
    /\ wr = NoWriters
    /\ lm = NoCall
    /\ mtime = <<>>
    /\ clock = 0
    /\ eng = NoEngine

Resting == att.pc = "idle"

-----------------------------------------------------------------------------
(* Store operations.  lastPut keeps, for every key that exists, the call   *)
(* that put it last; mtime keeps the LastModified the store gave it, the   *)
(* time of the store at the put.                                           *)

Noted(h, key, call) == [k \in (DOMAIN h) \cup {key} |-> IF k = key THEN call ELSE h[k]]

\* CatalogDataService.put_parquet_data
Write(df, table, partitions) ==
    /\ Resting
    /\ store' = put_parquet_data(store, df, Org, Dataset, table, partitions)
    /\ lastPut' = Noted(lastPut, get_parquet_path(Org, Dataset, table, partitions),
                        [op |-> "put_parquet_data", df |-> df, table |-> table,
                         partitions |-> partitions])
    /\ mtime' = Noted(mtime, get_parquet_path(Org, Dataset, table, partitions), clock)
    /\ UNCHANGED <<filedb, con, att, log, nAttach, pathVars, rd, wr, lm, clock, eng>>

\* S3Bucket.put_bytes called directly with some other key
PutBytes(key) ==
    /\ Resting
    /\ store' = put_bytes(store, key, [codec |-> "raw"])
    /\ lastPut' = Noted(lastPut, key, [op |-> "put_bytes", data |-> [codec |-> "raw"]])
    /\ mtime' = Noted(mtime, key, clock)
    /\ UNCHANGED <<filedb, con, att, log, nAttach, pathVars, rd, wr, lm, clock, eng>>

\* S3Bucket.delete_object
Delete(key) ==
    /\ Resting
    /\ key \in Keys
    /\ store' = delete_object(store, key)
    /\ lastPut' = [k \in (DOMAIN lastPut) \ {key} |-> lastPut[k]]
    /\ mtime' = [k \in (DOMAIN mtime) \ {key} |-> mtime[k]]
    /\ UNCHANGED <<filedb, con, att, log, nAttach, pathVars, rd, wr, lm, clock, eng>>

-----------------------------------------------------------------------------
(* DuckDbParquet.__init__ and the attachment it runs.  att.pc is the       *)
(* position inside the constructor; every engine statement and every       *)
(* presign request is one step.  The environment chooses whether the       *)
(* engine can read the files (readable) and whether a request succeeds     *)
(* (ok); res is the result of the statement, "ok" or the exception.        *)

Event(ev, arg, res) == [ev |-> ev, arg |-> arg, res |-> res]

\* Variant whose URL-array statement leaves out union_by_name.
ViewStatement_bare(kind, name) ==
    [verb |-> "CREATE OR REPLACE VIEW", name |-> name,
     source |-> IF kind = "union" THEN "UNION ALL" ELSE "read_parquet",
     hive_partitioning |-> kind # "union",
     union_by_name |-> kind \notin {"union", "array"}]

\* The text of a view statement, lines 135-140 (glob), 212 (url), 216
\* (array), 231 (url of one partition) and 240-243 (union): its verb, the
\* view name, what it selects from and the options passed to read_parquet
ViewStatement(kind, name) ==
    [verb |-> "CREATE OR REPLACE VIEW", name |-> name,
     source |-> IF kind = "union" THEN "UNION ALL" ELSE "read_parquet",
     hive_partitioning |-> kind # "union",
     union_by_name |-> kind # "union"]

\* a view statement that was executed, with its text
ViewEvent(ev, kind, name, res) ==
    [ev |-> ev, arg |-> name, res |-> res, sql |-> ViewStatement(kind, name)]

\* The views are those of the connection; a file database persists them.
SetViews(views) ==
    /\ con' = [con EXCEPT !.views = views]
    /\ filedb' = IF con.path = "file" THEN views ELSE filedb

Return(a) == [a EXCEPT !.pc = "done", !.outcome = "returned"]

\* raise ValueError(message), lines 187 and 205: the exception carries a
\* fixed message; attempts, the strategies and failure reasons it carries,
\* is empty
Raise(a, error) ==
    [a EXCEPT !.pc = "done", !.outcome = "raised", !.error = error,
              !.attempts = <<>>]

\* __init__: duckdb.connect(duckdb_path), _configure, then _attach_parquet_files
\* computes table_name and calls _try_attach_with_glob_pattern.  had_view
\* notes whether the database already holds a view of that name.
Construct(via, table, partitions, parquet_prefix, duckdb_path) ==
    /\ Resting
    /\ nAttach < MaxAttach
    /\ nAttach' = nAttach + 1
    /\ con' = [path |-> duckdb_path,
               views |-> IF duckdb_path = "file" THEN filedb ELSE {},
               open |-> TRUE]
    /\ att' = [Idle EXCEPT !.pc = "s3_config", !.via = via, !.table = table,
                           !.partitions = partitions,
                           !.parquet_prefix = parquet_prefix,
                           !.table_name = TableNameOf(parquet_prefix),
                           !.had_view = (duckdb_path = "file" /\
                               \E v \in filedb : v.name = TableNameOf(parquet_prefix))]
    /\ log' = <<>>
    /\ UNCHANGED <<store, filedb, pathVars, lastPut, rd, concVars, eng>>

\* Variant without the closing "/".
TablePrefix_open(organization, dataset, table) ==
    <<"catalog-data", "/">> \o organization \o <<"/">> \o dataset \o <<"/">>
    \o table

\* parquet_prefix of CatalogDataService.get_duckdb
TablePrefix(organization, dataset, table) ==
    <<"catalog-data", "/">> \o organization \o <<"/">> \o dataset \o <<"/">>
    \o table \o <<"/">>

\* CatalogDataService.get_duckdb
GetDuckdb(table) ==
    Construct("get_duckdb", table, <<>>, TablePrefix(Org, Dataset, table), ":memory:")

\* Variant that leaves the partition path open at its end.
PartitionPath_open(items) == Join(<<"/">>, PartSegments(items))

\* partition_path of CatalogDataService.get_duckdb_for_partitions
RECURSIVE PartitionPath(_)
PartitionPath(items) ==
    IF items = <<>> THEN <<>>
    ELSE items[1][1] \o <<"=">> \o items[1][2] \o <<"/">> \o PartitionPath(Tail(items))

\* CatalogDataService.get_duckdb_for_partitions
GetDuckdbForPartitions(table, partitions) ==
    Construct("get_duckdb_for_partitions", table, partitions,
              TablePrefix(Org, Dataset, table) \o PartitionPath(partitions),
              ":memory:")

\* DuckDbParquet(s3_bucket, parquet_prefix, duckdb_path) built directly on a
\* database file
NewDuckDbParquet(table, duckdb_path) ==
    Construct("DuckDbParquet", table, <<>>, TablePrefix(Org, Dataset, table),
              duckdb_path)

\* _configure_s3_access: the SET statements; an error is logged and swallowed
ConfigureS3(ok) ==
    /\ att.pc = "s3_config"
    /\ att' = [att EXCEPT !.pc = "glob"]
    /\ log' = Append(log, Event("s3_config", att.parquet_prefix,
                                IF ok THEN "ok" ELSE "Exception"))
    /\ UNCHANGED <<store, filedb, con, nAttach, pathVars, lastPut, rd, concVars, eng>>

\* Variant: the glob result is ignored and the fallback always runs.
AfterGlob_fallthrough(a, res) == [a EXCEPT !.pc = "list"]

\* _attach_parquet_files, lines 116-120, with the except of lines 146-148:
\* return when the glob view was created, else _attach_with_presigned_urls
AfterGlob(a, res) == IF res = "ok" THEN Return(a) ELSE [a EXCEPT !.pc = "list"]

\* _try_attach_with_glob_pattern, lines 128-142: CREATE OR REPLACE VIEW over
\* the glob pattern; read_parquet fails when no object matches the pattern
TryGlob(readable) ==
    LET res == ExecuteCreate(con.views, att.table_name,
                             readable /\ GlobMatches(store, att.parquet_prefix) # {})
    IN /\ att.pc = "glob"
       /\ log' = Append(log, ViewEvent("glob_view", "glob", att.table_name, res))
       /\ att' = AfterGlob(att, res)
       /\ IF res = "ok"
          THEN SetViews(CreateOrReplaceView(con.views, att.table_name, "glob",
                                            GlobPattern(att.parquet_prefix)))
          ELSE UNCHANGED <<con, filedb>>
       /\ UNCHANGED <<store, nAttach, pathVars, lastPut, rd, concVars, eng>>

\* _attach_with_presigned_urls, lines 186-187: raise when nothing was found
AfterList(a) ==
    IF a.files = <<>> THEN Raise(a, "NoDataFound") ELSE [a EXCEPT !.pc = "presign"]

\* _attach_with_presigned_urls, line 184
ListFiles ==
    /\ att.pc = "list"
    /\ log' = Append(log, Event("list", att.parquet_prefix, "ok"))
    /\ att' = AfterList([att EXCEPT
                           !.files = _find_all_parquet_files(store, att.parquet_prefix)])
    /\ UNCHANGED <<store, filedb, con, nAttach, pathVars, lastPut, rd, concVars, eng>>

\* Variant: the first key that fails to presign ends the loop.
AfterPresign_break(a, ok) ==
    LET file_key == a.files[a.asked + 1]
        b == [a EXCEPT !.asked = @ + 1,
                       !.urls = IF ok THEN Append(@, PresignedUrl(file_key)) ELSE @]
    IN IF ok /\ b.asked < Len(b.files) THEN b
       ELSE IF b.urls = <<>> THEN Raise(b, "AttachmentFailed")
       ELSE [b EXCEPT !.pc = "unified"]

\* lines 191-205: one iteration of the presign loop (a failure is logged and
\* the loop continues); after the last one, raise when no URL was generated
AfterPresign(a, ok) ==
    LET file_key == a.files[a.asked + 1]
        b == [a EXCEPT !.asked = @ + 1,
                       !.urls = IF ok THEN Append(@, PresignedUrl(file_key)) ELSE @]
    IN IF b.asked < Len(b.files) THEN b
       ELSE IF b.urls = <<>> THEN Raise(b, "AttachmentFailed")
       ELSE [b EXCEPT !.pc = "unified"]

Presign(ok) ==
    /\ att.pc = "presign"
    /\ log' = Append(log, Event("presign", att.files[att.asked + 1],
                                IF ok THEN "ok" ELSE "Exception"))
    /\ att' = AfterPresign(att, ok)
    /\ UNCHANGED <<store, filedb, con, nAttach, pathVars, lastPut, rd, concVars, eng>>

\* Variant: the exception of the unified statement leaves the constructor.
AfterUnified_propagate(a, res) == IF res = "ok" THEN Return(a) ELSE Raise(a, res)

\* lines 218-224: done when the unified view was created, else the
\* per-partition views
AfterUnified(a, res) == IF res = "ok" THEN Return(a) ELSE [a EXCEPT !.pc = "parts"]

\* lines 210-219: the unified view over the URL (one) or the URL array (many)
Unified(readable) ==
    LET res == ExecuteCreate(con.views, att.table_name, readable)
    IN /\ att.pc = "unified"
       /\ log' = Append(log, ViewEvent("unified_view",
                                    IF Len(att.urls) = 1 THEN "url" ELSE "array",
                                    att.table_name, res))
       /\ att' = AfterUnified(att, res)
       /\ IF res = "ok"
          THEN SetViews(IF Len(att.urls) = 1
                        THEN CreateOrReplaceView(con.views, att.table_name, "url",
                                                 att.urls[1])
                        ELSE CreateOrReplaceView(con.views, att.table_name, "array",
                                                 att.urls))
          ELSE UNCHANGED <<con, filedb>>
       /\ UNCHANGED <<store, nAttach, pathVars, lastPut, rd, concVars, eng>>

\* Variant without the index.
safe_view_name_plain(table_name, i) == table_name \o <<"_part_">>

\* f"{table_name}_part_{i:04d}"
safe_view_name(table_name, i) == table_name \o <<"_part_">> \o Pad4(i)

\* lines 227-239: after an iteration of the per-partition loop; after the
\* last one, the union view when some partition view exists, else the
\* constructor returns
AfterParts(a) ==
    IF a.tried < Len(a.urls) THEN a
    ELSE IF a.view_names # <<>> THEN [a EXCEPT !.pc = "union"]
    ELSE Return(a)

\* lines 227-236: one iteration of the per-partition loop
PartView(readable) ==
    LET i == att.tried
        name == safe_view_name(att.table_name, i)
        res == ExecuteCreate(con.views, name, readable)
    IN /\ att.pc = "parts"
       /\ log' = Append(log, ViewEvent("part_view", "url", name, res))
       /\ att' = AfterParts([att EXCEPT
                               !.tried = i + 1,
                               !.view_names = IF res = "ok" THEN Append(@, name) ELSE @])
       /\ IF res = "ok"
          THEN SetViews(CreateOrReplaceView(con.views, name, "url", att.urls[i + 1]))
          ELSE UNCHANGED <<con, filedb>>
       /\ UNCHANGED <<store, nAttach, pathVars, lastPut, rd, concVars, eng>>

\* lines 241-247: the exception of the union statement is logged and
\* swallowed; the constructor returns either way
AfterUnion(a, res) == Return(a)

\* lines 240-244: the table's view as UNION ALL over the partition views
Union(readable) ==
    LET res == ExecuteCreate(con.views, att.table_name, readable)
    IN /\ att.pc = "union"
       /\ log' = Append(log, ViewEvent("union_view", "union", att.table_name, res))
       /\ att' = AfterUnion(att, res)
       /\ IF res = "ok"
          THEN SetViews(CreateOrReplaceView(con.views, att.table_name, "union",
                                            att.view_names))
          ELSE UNCHANGED <<con, filedb>>
       /\ UNCHANGED <<store, nAttach, pathVars, lastPut, rd, concVars, eng>>

\* DuckDbParquet.close, lines 88-90: the caller closes the handle it was
\* given; the views of an in-memory database go with it
CloseHandle ==
    /\ att.pc = "done"
    /\ att.outcome = "returned"
    /\ con' = [path |-> con.path, views |-> {}, open |-> FALSE]
    /\ att' = Idle
    /\ log' = <<>>
    /\ UNCHANGED <<store, filedb, nAttach, pathVars, lastPut, rd, concVars, eng>>

\* The constructor raised: the caller got no handle, the half-built object
\* and its connection are dropped
DropFailed ==
    /\ att.pc = "done"
    /\ att.outcome = "raised"
    /\ con' = NoCon
    /\ att' = Idle
    /\ log' = <<>>
    /\ UNCHANGED <<store, filedb, nAttach, pathVars, lastPut, rd, concVars, eng>>

Next ==
    \/ \E df \in Frames, table \in Tables, partitions \in WritePartitions :
          Write(df, table, partitions)
    \/ \E key \in OtherKeys : PutBytes(key)
    \/ \E key \in Keys : Delete(key)
    \/ \E table \in Tables : GetDuckdb(table)
    \/ \E table \in Tables, partitions \in ViewPartitions :
          GetDuckdbForPartitions(table, partitions)
    \/ \E table \in Tables, duckdb_path \in DuckDbPaths :
          NewDuckDbParquet(table, duckdb_path)
    \/ \E ok \in BOOLEAN : ConfigureS3(ok)
    \/ \E readable \in BOOLEAN : TryGlob(readable)
    \/ ListFiles
    \/ \E ok \in BOOLEAN : Presign(ok)
    \/ \E readable \in BOOLEAN : Unified(readable)
    \/ \E readable \in BOOLEAN : PartView(readable)
    \/ \E readable \in BOOLEAN : Union(readable)
    \/ CloseHandle
    \/ DropFailed

Spec == Init /\ [][Next]_vars

-----------------------------------------------------------------------------
(* The path resolver applied to bounded inputs.                            *)

\* Inputs of the path resolver
PathTables == {TableT, TableT2, <<>>}

PathOrganizations == {Org, <<>>}

PathDatasets == {Dataset, <<>>}

PathPartitions ==
    { None,
      <<>>,
      << <<<<"a">>, <<"b">>>> >>,
      << <<<<"a">>, <<"b">>>>, <<<<"k">>, <<"v">>>> >>,
      << <<<<"k">>, <<"v">>>>, <<<<"a">>, <<"b">>>> >>,
      << <<<<"a">>, <<"b", "/", "k", "=", "v">>>> >>,
      << <<<<"a", "=", "b">>, <<"v">>>> >>,
      << <<<<"a">>, <<"b", "=", "v">>>> >> }

PathInputs ==
    [organization : PathOrganizations, dataset : PathDatasets, table : PathTables,
     partitions : PathPartitions]

PathInit ==
    /\ pathA \in PathInputs
    /\ pathB \in PathInputs
    /\ resA = None
    /\ resB = None
    /\ store = <<>>
    /\ filedb = {}
    /\ con = NoCon
    /\ att = Idle
    /\ log = <<>>
    /\ nAttach = 0
    /\ lastPut = <<>>
    /\ rd = NoRead
    /\ wr = NoWriters
    /\ lm = NoCall
    /\ mtime = <<>>
    /\ clock = 0
    /\ eng = NoEngine

ResolveA ==
    /\ resA = None
    /\ resA' = get_parquet_path(pathA.organization, pathA.dataset, pathA.table,
                                pathA.partitions)
    /\ UNCHANGED <<pathA, pathB, resB, attVars, lastPut, rd, concVars, eng>>

ResolveB ==
    /\ resB = None
    /\ resB' = get_parquet_path(pathB.organization, pathB.dataset, pathB.table,
                                pathB.partitions)
    /\ UNCHANGED <<pathA, pathB, resA, attVars, lastPut, rd, concVars, eng>>

PathNext == ResolveA \/ ResolveB

PathSpec == PathInit /\ [][PathNext]_vars

-----------------------------------------------------------------------------
(* Writes and reads of table data, one call at a time.                     *)

\* Inputs of the data specification
DataTables == {TableT, TableT2}

ItemKV == << <<"k">>, <<"v">> >>

DataPartitions == { None, <<ItemAB>>, <<ItemAV>>, <<ItemAB, ItemKV>> }

ReadPartitions == { None, <<>>, <<ItemAB>>, <<ItemAV>>, <<ItemAB, ItemKV>> }

\* a frame that already has a column named like the partition key "a", and
\* row labels that are not 0, 1, ...
FrameAM ==
    [columns |-> << <<"a">>, <<"m">> >>, rows |-> << << <<"7">>, <<"1">> >>, << <<"8">>, <<"2">> >> >>,
     index |-> <<5, 6>>]

DataFrames == Frames \cup {FrameAM}

\* CatalogDataService.get_parquet_data
GetParquetData(table, partitions) ==
    /\ rd.pc = "idle"
    /\ rd' = [pc |-> "done", table |-> table, partitions |-> partitions,
              res |-> get_parquet_data(store, Org, Dataset, table, partitions)]
    /\ UNCHANGED <<attVars, pathVars, lastPut, concVars, eng>>

\* the caller drops the result
Forget ==
    /\ rd.pc = "done"
    /\ rd' = NoRead
    /\ UNCHANGED <<attVars, pathVars, lastPut, concVars, eng>>

DataNext ==
    \/ \E df \in DataFrames, table \in DataTables, partitions \in DataPartitions :
          rd.pc = "idle" /\ Write(df, table, partitions)
    \/ \E key \in OtherKeys : rd.pc = "idle" /\ PutBytes(key)
    \/ \E table \in DataTables, partitions \in ReadPartitions :
          GetParquetData(table, partitions)
    \/ Forget

DataSpec == Init /\ [][DataNext]_vars

-----------------------------------------------------------------------------
(* Calls that overlap in time: two put_parquet_data calls, one             *)
(* get_parquet_last_updated call and deletions.  Each request to the store *)
(* is one step; what a call computes locally belongs to its next request.  *)

\* the store's time may advance up to MaxClock
MaxClock == 2

ConcPartitions == { None, <<ItemAB>> }

Tick ==
    /\ clock < MaxClock
    /\ clock' = clock + 1
    /\ UNCHANGED <<attVars, pathVars, dataVars, wr, lm, mtime, eng>>

\* put_parquet_data up to pq.getvalue(): the frame is copied, the partition
\* columns are set, the path is resolved and the frame is serialized
Serialize(w, df, partitions) ==
    /\ wr[w].pc = "idle"
    /\ wr' = [wr EXCEPT ![w] =
                [pc |-> "put", df |-> df, partitions |-> partitions,
                 file_path |-> get_parquet_path(Org, Dataset, TableT, partitions),
                 data |-> ToParquet(IF Truthy(partitions)
                                    THEN AddPartitionColumns(df, partitions)
                                    ELSE df)]]
    /\ UNCHANGED <<attVars, pathVars, dataVars, lm, mtime, clock, eng>>

\* self._bucket.put_bytes(file_path, pq.getvalue()): one put_object; seq is
\* the position of this put among the puts of the writers, racing whether
\* another call had its payload ready and not yet put
Put(w) ==
    /\ wr[w].pc = "put"
    /\ store' = put_bytes(store, wr[w].file_path, wr[w].data)
    /\ lastPut' = Noted(lastPut, wr[w].file_path,
                        [op |-> "put_parquet_data", df |-> wr[w].df,
                         table |-> TableT, partitions |-> wr[w].partitions])
    /\ mtime' = Noted(mtime, wr[w].file_path, clock)
    /\ wr' = [wr EXCEPT ![w] =
                [pc |-> "done", df |-> wr[w].df, partitions |-> wr[w].partitions,
                 file_path |-> wr[w].file_path, data |-> wr[w].data,
                 outcome |-> "returned",
                 racing |-> \E v \in Writers \ {w} : wr[v].pc = "put",
                 seq |-> 1 + Cardinality({v \in Writers : wr[v].pc = "done"})]]
    /\ UNCHANGED <<filedb, con, att, log, nAttach, pathVars, rd, lm, clock, eng>>

\* s3_client.head_object: the answer of the store.  fault: the store is
\* unavailable for this request (a ClientError that is no 404).
head_object(s, key, fault) ==
    IF fault THEN "StoreUnavailable"
    ELSE IF key \in DOMAIN s THEN "ok"
    ELSE "ObjectNotFound"

\* S3Bucket.object_exists: True when head_object answers, False on every
\* ClientError
object_exists(s, key, fault) == head_object(s, key, fault) = "ok"

\* A finished call is [outcome, found, value, error]: found and value say
\* whether a datetime or None was returned, and which datetime; faulted
\* notes that a request of the call met an unavailable store.
\* get_parquet_last_updated resolves the path; get_last_updated_date_of_file
\* calls object_exists and returns None when it answers False
ObjectExists(partitions, fault) ==
    /\ lm.pc = "idle"
    /\ LET key == get_parquet_path(Org, Dataset, TableT, partitions)
       IN lm' = IF object_exists(store, key, fault)
                THEN [pc |-> "head", key |-> key]
                ELSE [pc |-> "done", key |-> key, outcome |-> "returned",
                      found |-> FALSE, value |-> 0, error |-> None,
                      faulted |-> fault]
    /\ UNCHANGED <<attVars, pathVars, dataVars, wr, mtime, clock, eng>>

\* the second head_object of get_last_updated_date_of_file, outside any try:
\* LastModified of the object, or the ClientError of the request
HeadObject(fault) ==
    /\ lm.pc = "head"
    /\ lm' = IF head_object(store, lm.key, fault) = "ok"
             THEN [pc |-> "done", key |-> lm.key, outcome |-> "returned",
                   found |-> TRUE, value |-> mtime[lm.key], error |-> None,
                   faulted |-> FALSE]
             ELSE [pc |-> "done", key |-> lm.key, outcome |-> "raised",
                   found |-> FALSE, value |-> 0,
                   error |-> head_object(store, lm.key, fault),
                   faulted |-> fault]
    /\ UNCHANGED <<attVars, pathVars, dataVars, wr, mtime, clock, eng>>

ConcNext ==
    \/ Tick
    \/ \E w \in Writers, df \in DataFrames, partitions \in ConcPartitions :
          Serialize(w, df, partitions)
    \/ \E w \in Writers : Put(w)
    \/ \E key \in Keys : Delete(key)
    \/ \E partitions \in ConcPartitions, fault \in BOOLEAN :
          ObjectExists(partitions, fault)
    \/ \E fault \in BOOLEAN : HeadObject(fault)

ConcSpec == Init /\ [][ConcNext]_vars

-----------------------------------------------------------------------------
(* Concurrent get_duckdb / get_duckdb_for_partitions calls on one          *)
(* CatalogDataService.  Every caller runs the constructor of its own       *)
(* DuckDbParquet; the steps of the callers interleave with each other and  *)
(* with writes.  eng.calls[c].att is the position of caller c in its       *)
(* constructor, eng.calls[c].db the database its connection is on,         *)
(* eng.calls[c].own the views its own statements created, and eng.dbs the  *)
(* views each database of the engine holds.                                *)

EnginePartitions == { None, <<ItemAB>> }

\* Variant: every connection is on the one database file.
connect_shared(duckdb_path, c) == 0

\* duckdb.connect(duckdb_path), line 68: ":memory:" (the default of line 50,
\* which get_duckdb and get_duckdb_for_partitions leave in place) opens a
\* database of its own for the connection, a path opens the database file
connect(duckdb_path, c) == IF duckdb_path = ":memory:" THEN c ELSE 0

\* the views seen through the connection of caller c
Views(c) == eng.dbs[eng.calls[c].db]

At(c, pc) == eng.calls[c].att.pc = pc

\* a step of caller c that executes no view statement
EngineStep(c, a) ==
    /\ eng' = [eng EXCEPT !.calls[c].att = a]
    /\ UNCHANGED <<attVars, pathVars, dataVars, concVars>>

\* a step of caller c that executes a view statement with result res
EngineExecute(c, a, res, name, kind, src) ==
    /\ eng' = IF res = "ok"
              THEN [eng EXCEPT
                      !.calls[c].att = a,
                      !.calls[c].own = CreateOrReplaceView(@, name, kind, src),
                      !.dbs[eng.calls[c].db] = CreateOrReplaceView(@, name, kind, src)]
              ELSE [eng EXCEPT !.calls[c].att = a]
    /\ UNCHANGED <<attVars, pathVars, dataVars, concVars>>

\* DuckDbParquet.__init__ run by caller c
EngineConstruct(c, via, table, partitions, parquet_prefix, duckdb_path) ==
    /\ At(c, "idle")
    /\ eng' = [eng EXCEPT
                 !.calls[c] =
                    [att |-> [Idle EXCEPT !.pc = "s3_config", !.via = via,
                                          !.table = table,
                                          !.partitions = partitions,
                                          !.parquet_prefix = parquet_prefix,
                                          !.table_name = TableNameOf(parquet_prefix)],
                     db |-> connect(duckdb_path, c),
                     own |-> {}]]
    /\ UNCHANGED <<attVars, pathVars, dataVars, concVars>>

\* CatalogDataService.get_duckdb called by caller c
EngineGetDuckdb(c, table) ==
    EngineConstruct(c, "get_duckdb", table, <<>>, TablePrefix(Org, Dataset, table),
                    ":memory:")

\* CatalogDataService.get_duckdb_for_partitions called by caller c
EngineGetDuckdbForPartitions(c, table, partitions) ==
    EngineConstruct(c, "get_duckdb_for_partitions", table, partitions,
                    TablePrefix(Org, Dataset, table) \o PartitionPath(partitions),
                    ":memory:")

\* _configure_s3_access
EngineConfigureS3(c) ==
    /\ At(c, "s3_config")
    /\ EngineStep(c, [eng.calls[c].att EXCEPT !.pc = "glob"])

\* _try_attach_with_glob_pattern
EngineTryGlob(c, readable) ==
    LET a == eng.calls[c].att
        res == ExecuteCreate(Views(c), a.table_name,
                             readable /\ GlobMatches(store, a.parquet_prefix) # {})
    IN /\ At(c, "glob")
       /\ EngineExecute(c, AfterGlob(a, res), res, a.table_name, "glob",
                        GlobPattern(a.parquet_prefix))

\* _attach_with_presigned_urls, line 184
EngineListFiles(c) ==
    LET a == eng.calls[c].att
    IN /\ At(c, "list")
       /\ EngineStep(c, AfterList([a EXCEPT
                            !.files = _find_all_parquet_files(store, a.parquet_prefix)]))

\* one iteration of the presign loop
EnginePresign(c, ok) ==
    /\ At(c, "presign")
    /\ EngineStep(c, AfterPresign(eng.calls[c].att, ok))

\* the unified view over the URL or the URL array
EngineUnified(c, readable) ==
    LET a == eng.calls[c].att
        res == ExecuteCreate(Views(c), a.table_name, readable)
    IN /\ At(c, "unified")
       /\ IF Len(a.urls) = 1
          THEN EngineExecute(c, AfterUnified(a, res), res, a.table_name, "url",
                             a.urls[1])
          ELSE EngineExecute(c, AfterUnified(a, res), res, a.table_name, "array",
                             a.urls)

\* one iteration of the per-partition loop
EnginePartView(c, readable) ==
    LET a == eng.calls[c].att
        i == a.tried
        name == safe_view_name(a.table_name, i)
        res == ExecuteCreate(Views(c), name, readable)
    IN /\ At(c, "parts")
       /\ EngineExecute(c, AfterParts([a EXCEPT
                                !.tried = i + 1,
                                !.view_names = IF res = "ok" THEN Append(@, name)
                                               ELSE @]),
                        res, name, "url", a.urls[i + 1])

\* the table's view as UNION ALL over the partition views
EngineUnion(c, readable) ==
    LET a == eng.calls[c].att
        res == ExecuteCreate(Views(c), a.table_name, readable)
    IN /\ At(c, "union")
       /\ EngineExecute(c, AfterUnion(a, res), res, a.table_name, "union",
                        a.view_names)

\* DuckDbParquet.close by the caller that was given the handle, or the drop
\* of the object whose constructor raised: an in-memory database goes with
\* its connection
EngineClose(c) ==
    /\ At(c, "done")
    /\ eng' = [eng EXCEPT
                 !.calls[c] = [att |-> Idle, db |-> 0, own |-> {}],
                 !.dbs[eng.calls[c].db] = IF eng.calls[c].db = 0 THEN @ ELSE {}]
    /\ UNCHANGED <<attVars, pathVars, dataVars, concVars>>

EngineNext ==
    \/ \E df \in Frames, table \in Tables, partitions \in EnginePartitions :
          Write(df, table, partitions)
    \/ \E c \in Callers, table \in Tables : EngineGetDuckdb(c, table)
    \/ \E c \in Callers, table \in Tables, partitions \in ViewPartitions :
          EngineGetDuckdbForPartitions(c, table, partitions)
    \/ \E c \in Callers : EngineConfigureS3(c)
    \/ \E c \in Callers, readable \in BOOLEAN : EngineTryGlob(c, readable)
    \/ \E c \in Callers : EngineListFiles(c)
    \/ \E c \in Callers, ok \in BOOLEAN : EnginePresign(c, ok)
    \/ \E c \in Callers, readable \in BOOLEAN : EngineUnified(c, readable)
    \/ \E c \in Callers, readable \in BOOLEAN : EnginePartView(c, readable)
    \/ \E c \in Callers, readable \in BOOLEAN : EngineUnion(c, readable)
    \/ \E c \in Callers : EngineClose(c)

EngineSpec == Init /\ [][EngineNext]_vars

-----------------------------------------------------------------------------
(* get_parquet_data without partitions and get_duckdb on one store: what   *)
(* the read reads next to what the attachment lists.  The store holds      *)
(* objects of the table t and of the table t2, whose name begins with "t", *)
(* and a parquet file of t that is not named data.parquet.                 *)

\* a parquet file under the table's prefix that is not named data.parquet
ListKeys == { TablePrefix(Org, Dataset, TableT) \o <<"m", ".parquet">> }

ListNext ==
    \/ \E df \in Frames, table \in DataTables, partitions \in EnginePartitions :
          Write(df, table, partitions)
    \/ \E key \in ListKeys : PutBytes(key)
    \/ \E table \in Tables : GetParquetData(table, None)
    \/ Forget
    \/ \E table \in Tables : GetDuckdb(table)
    \/ \E ok \in BOOLEAN : ConfigureS3(ok)
    \/ \E readable \in BOOLEAN : TryGlob(readable)
    \/ ListFiles
    \/ \E ok \in BOOLEAN : Presign(ok)
    \/ \E readable \in BOOLEAN : Unified(readable)
    \/ \E readable \in BOOLEAN : PartView(readable)
    \/ \E readable \in BOOLEAN : Union(readable)
    \/ CloseHandle
    \/ DropFailed

ListSpec == Init /\ [][ListNext]_vars

-----------------------------------------------------------------------------
(* put_parquet_data and the frame of its caller.  A caller keeps one frame *)
(* object and hands it to put_parquet_data time after time; wr[w].df is    *)
(* that object as the last call left it, wr[w].given what it held when the *)
(* call was made, wr[w].first what it held before the first call and       *)
(* wr[w].earlier the path the call before addressed.                       *)

MaxWrites == 2

FramePartitions == { None, <<ItemAB>>, <<ItemAV>>, <<ItemAB, ItemKV>> }

\* Variant that sets the partition columns on the caller's frame itself.
PutFrames_inplace(df, partitions) ==
    LET df_to_save == IF Truthy(partitions) THEN AddPartitionColumns(df, partitions)
                      ELSE df
    IN [df |-> df_to_save, df_to_save |-> df_to_save]

\* put_parquet_data, lines 71-76: df_to_save = df.copy() is a frame of its
\* own with the columns, rows and index of df; the partition columns are
\* set on df_to_save.  The result is the caller's frame and the frame that
\* is serialized, as the assignments leave them.
PutFrames(df, partitions) ==
    LET df_to_save == IF Truthy(partitions) THEN AddPartitionColumns(df, partitions)
                      ELSE df
    IN [df |-> df, df_to_save |-> df_to_save]

\* put_parquet_data called by w with its frame, holding df; fault: put_object
\* fails and put_bytes raises the ClientError
PutParquetData(w, df, first, calls, earlier, partitions, fault) ==
    LET file_path == get_parquet_path(Org, Dataset, TableT, partitions)
        frames == PutFrames(df, partitions)
        data == ToParquet(frames.df_to_save)
    IN /\ wr' = [wr EXCEPT ![w] =
                   [pc |-> "done", given |-> df, first |-> first, calls |-> calls,
                    earlier |-> earlier,
                    df |-> frames.df, partitions |-> partitions,
                    file_path |-> file_path, data |-> data,
                    outcome |-> IF fault THEN "raised" ELSE "returned"]]
       /\ IF fault
          THEN UNCHANGED <<store, lastPut, mtime>>
          ELSE /\ store' = put_bytes(store, file_path, data)
               /\ lastPut' = Noted(lastPut, file_path,
                                   [op |-> "put_parquet_data", df |-> df,
                                    table |-> TableT, partitions |-> partitions])
               /\ mtime' = Noted(mtime, file_path, clock)
       /\ UNCHANGED <<filedb, con, att, log, nAttach, pathVars, rd, lm, clock, eng>>

\* the first call of w, with a frame it just built
FirstWrite(w, df, partitions, fault) ==
    /\ wr[w].pc = "idle"
    /\ PutParquetData(w, df, df, 1, <<>>, partitions, fault)

\* a further call of w with the same frame object
WriteAgain(w, partitions, fault) ==
    /\ wr[w].pc = "done"
    /\ wr[w].calls < MaxWrites
    /\ PutParquetData(w, wr[w].df, wr[w].first, wr[w].calls + 1, wr[w].file_path,
                      partitions, fault)

FrameNext ==
    \/ \E w \in Writers, df \in DataFrames, partitions \in FramePartitions,
          fault \in BOOLEAN : FirstWrite(w, df, partitions, fault)
    \/ \E w \in Writers, partitions \in FramePartitions, fault \in BOOLEAN :
          WriteAgain(w, partitions, fault)

FrameSpec == Init /\ [][FrameNext]_vars

-----------------------------------------------------------------------------
(* Properties of the attachment, stated for Spec.                          *)

\* The strategy an event belongs to: 1 glob, 2 pre-signed URLs, 3 per-partition
Stage(e) ==
    IF e.ev \in {"s3_config", "glob_view"} THEN 1
    ELSE IF e.ev \in {"list", "presign", "unified_view"} THEN 2
    ELSE 3

Count(ev) == Cardinality({i \in DOMAIN log : log[i].ev = ev})

Failed(i, ev) == log[i].ev = ev /\ log[i].res # "ok"

Succeeded(i, ev) == log[i].ev = ev /\ log[i].res = "ok"

\* C1: the strategies run in the order glob, pre-signed URLs, per-partition,
\* each at most once; a strategy starts only after the earlier ones failed,
\* and nothing is issued after a strategy succeeded.
C1_StrictOrder ==
    /\ \A i, j \in DOMAIN log : i < j => Stage(log[i]) <= Stage(log[j])
    /\ \A ev \in {"s3_config", "glob_view", "list", "unified_view", "union_view"} :
          Count(ev) <= 1
    /\ \A i, j \in DOMAIN log :
          (log[i].ev = "part_view" /\ log[j].ev = "part_view" /\ i # j)
          => log[i].arg # log[j].arg
    /\ \A j \in DOMAIN log :
          Stage(log[j]) = 2 => \E i \in 1..(j - 1) : Failed(i, "glob_view")
    /\ \A j \in DOMAIN log :
          Stage(log[j]) = 3 => \E i \in 1..(j - 1) : Failed(i, "unified_view")
    /\ \A i \in DOMAIN log :
          (Succeeded(i, "glob_view") \/ Succeeded(i, "unified_view"))
          => (i = Len(log) /\ att.pc = "done")

\* C1 witness: a construction that went through all three strategies.
C1_Witness ==
    /\ att.pc = "done"
    /\ Count("glob_view") = 1 /\ Count("unified_view") = 1 /\ Count("union_view") = 1

\* C2: when the construction through get_duckdb returns without raising, a
\* view with the table's name exists on the connection.
C2_NeverPartial ==
    (att.pc = "done" /\ att.via = "get_duckdb" /\ att.outcome = "returned")
    => \E v \in con.views : v.name = att.table

\* C3: when the per-partition strategy creates no partition view, or its
\* UNION ALL statement fails, the construction raises AttachmentFailed and
\* the partition views created so far stay in the connection.
C3_PerPartitionRaises ==
    ( /\ att.pc = "done"
      /\ att.tried > 0
      /\ (att.view_names = <<>> \/ Failed(Len(log), "union_view")) )
    => /\ att.outcome = "raised"
       /\ att.error = "AttachmentFailed"
       /\ \A i \in DOMAIN att.view_names :
             \E v \in con.views : v.name = att.view_names[i]

NoParquetUnder(s, prefix) ==
    \A k \in DOMAIN s : ~(StartsWith(k, prefix) /\ EndsWith(k, <<".parquet">>))

\* C4: every step a construction takes while no object under its prefix ends
\* in .parquet creates no view and asks for no pre-signed URL, and the
\* construction ends by raising NoDataFound.
C4_NoDataFound ==
    [][ (att.pc \notin {"idle", "done"} /\ NoParquetUnder(store, att.parquet_prefix))
        => /\ con'.views = con.views
           /\ Count("presign")' = 0
           /\ att'.pc \in {"glob", "list", "done"}
           /\ att'.pc = "done" => (att'.outcome = "raised" /\ att'.error = "NoDataFound")
      ]_vars

\* C4 witness: NoDataFound was raised for a prefix that holds an object, but
\* none ending in .parquet.
C4_Witness ==
    /\ att.pc = "done" /\ att.error = "NoDataFound"
    /\ NoParquetUnder(store, att.parquet_prefix)
    /\ \E k \in Keys : StartsWith(k, att.parquet_prefix)

PresignEvents == SelectSeq(log, LAMBDA e : e.ev = "presign")

PresignedOk == SelectSeq(PresignEvents, LAMBDA e : e.res = "ok")

UrlsOfLog == [i \in 1..Len(PresignedOk) |-> PresignedUrl(PresignedOk[i].arg)]

PresignLoopOver ==
    \/ att.pc \in {"unified", "parts", "union"}
    \/ att.pc = "done" /\ Count("list") = 1 /\ att.files # <<>>

\* C5: the presign loop asks for every listed key in enumeration order, a
\* failure does not stop it; the URLs kept, and the unified view, are exactly
\* those of the keys that presigned, in that order; the step raises
\* AttachmentFailed if and only if no key presigned.
C5_PresignSkip ==
    /\ \A i \in DOMAIN PresignEvents : PresignEvents[i].arg = att.files[i]
    /\ att.urls = UrlsOfLog
    /\ PresignLoopOver => Len(PresignEvents) = Len(att.files)
    /\ PresignLoopOver =>
          ((att.outcome = "raised" /\ att.error = "AttachmentFailed")
           <=> PresignedOk = <<>>)
    /\ (log # <<>> /\ Succeeded(Len(log), "unified_view")) =>
          \E v \in con.views :
             /\ v.name = att.table_name
             /\ v.src = IF Len(UrlsOfLog) = 1 THEN UrlsOfLog[1] ELSE UrlsOfLog

\* C5 witness: a unified view over two of three keys, the middle one skipped.
C5_Witness ==
    /\ Len(PresignEvents) = 3
    /\ PresignEvents[1].res = "ok"
    /\ PresignEvents[2].res # "ok"
    /\ PresignEvents[3].res = "ok"
    /\ Succeeded(Len(log), "unified_view")

NoDuplicateNames(views) == \A v, w \in views : v.name = w.name => v = w

TableViewEvents ==
    SelectSeq(log, LAMBDA e : e.ev \in {"glob_view", "unified_view", "union_view"}
                              /\ e.res = "ok")

KindsOf(ev) ==
    IF ev = "glob_view" THEN {"glob"}
    ELSE IF ev = "unified_view" THEN {"url", "array"}
    ELSE {"union"}

C8_ViewNameStable ==
    att.via \in {"get_duckdb", "get_duckdb_for_partitions"}
    => att.table_name = att.table

\* the objects a view over pre-signed URLs reads
CoveredKeys(v) ==
    IF v.kind = "url" THEN {v.src.key}
    ELSE IF v.kind = "array" THEN {v.src[i].key : i \in 1..Len(v.src)}
    ELSE {}

\* the number of rows of a parquet object
RowsIn(k) == IF store[k].codec = "snappy" THEN Len(store[k].rows) ELSE 0

RECURSIVE RowCount(_)
RowCount(S) ==
    IF S = {} THEN 0
    ELSE LET k == CHOOSE x \in S : TRUE IN RowsIn(k) + RowCount(S \ {k})

\* the engine refused the glob read of a table that has parquet files, every
\* presign request was served and the engine could read the URLs
OnlyGlobRejected ==
    /\ att.pc = "done"
    /\ att.via = "get_duckdb"
    /\ GlobMatches(store, att.parquet_prefix) # {}
    /\ \E i \in DOMAIN log : log[i].ev = "glob_view" /\ log[i].res = "IOException"
    /\ \A i \in DOMAIN log :
          log[i].ev \in {"presign", "unified_view"} => log[i].res # "IOException"
    /\ \A i \in DOMAIN log : log[i].ev = "presign" => log[i].res = "ok"

\* C18: when the engine refuses the glob read, get_duckdb still returns a
\* handle whose view of the table is built over pre-signed URLs, and that
\* view reads exactly the objects the glob pattern matches, hence the same
\* number of rows.
C18_FallbackEquivalent ==
    OnlyGlobRejected =>
        /\ att.outcome = "returned"
        /\ \E v \in con.views :
              /\ v.name = att.table_name
              /\ v.kind \in {"url", "array"}
              /\ CoveredKeys(v) = GlobMatches(store, att.parquet_prefix)
              /\ RowCount(CoveredKeys(v))
                   = RowCount(GlobMatches(store, att.parquet_prefix))
        /\ \A v \in con.views : v.name = att.table_name

\* C18 witness: the glob read was refused and the view was built over the
\* URLs of three files, two of them in partition directories, while the
\* prefix also held an object that is no parquet file.
C18_Witness ==
    /\ OnlyGlobRejected
    /\ att.outcome = "returned"
    /\ Len(att.urls) = 3
    /\ \E k \in OtherKeys : k \in DOMAIN store

\* the partition path of a call: the table prefix followed by one k=v/
\* directory per partition item
ScopePath ==
    <<"catalog-data", "/">> \o Org \o <<"/">> \o Dataset \o <<"/">> \o att.table
    \o <<"/">> \o Join(<<"/">>, PartSegments(att.partitions)) \o <<"/">>

\* C19: a partition-scoped attachment uses the partition path as glob and
\* listing prefix, and every key it lists, presigns or attaches lies in
\* that partition directory, so no object of a sibling partition is covered.
C19_PartitionScope ==
    att.via = "get_duckdb_for_partitions" =>
        /\ att.parquet_prefix = ScopePath
        /\ \A i \in DOMAIN att.files : StartsWith(att.files[i], ScopePath)
        /\ \A i \in DOMAIN att.urls : StartsWith(att.urls[i].key, ScopePath)
        /\ \A i \in DOMAIN log :
              /\ log[i].ev = "presign" => StartsWith(log[i].arg, ScopePath)
              /\ log[i].ev = "list" => log[i].arg = ScopePath
        /\ \A v \in con.views :
              /\ \A k \in CoveredKeys(v) : StartsWith(k, ScopePath)
              /\ v.kind = "glob" =>
                    v.src = <<"s3://bucket/">> \o ScopePath \o <<"**/*", ".parquet">>

\* C19 witness: the files of partition a=b were listed and presigned while
\* the sibling partition a=b2 and the unpartitioned file existed.
C19_Witness ==
    /\ att.via = "get_duckdb_for_partitions"
    /\ att.partitions = <<ItemAB>>
    /\ att.urls # <<>>
    /\ get_parquet_path(Org, Dataset, att.table, <<ItemAB2>>) \in DOMAIN store
    /\ get_parquet_path(Org, Dataset, att.table, None) \in DOMAIN store

\* C21: the credential and region statements come before the glob
\* statement, and when they fail the glob strategy is abandoned: no glob
\* statement is issued and the listing of the pre-signed strategy is next.
C21_ConfigFailureAbandons ==
    /\ \A j \in DOMAIN log :
          log[j].ev = "glob_view" => \E i \in 1..(j - 1) : log[i].ev = "s3_config"
    /\ \A i \in DOMAIN log :
          Failed(i, "s3_config") =>
             /\ \A j \in DOMAIN log : log[j].ev # "glob_view"
             /\ IF i = Len(log) THEN att.pc = "list" ELSE log[i + 1].ev = "list"

\* the statements of the per-partition loop, in order
PartEvents == SelectSeq(log, LAMBDA e : e.ev = "part_view")

\* the names of the partition views that were created, in order
CreatedParts ==
    LET ok == SelectSeq(PartEvents, LAMBDA e : e.res = "ok")
    IN [i \in 1..Len(ok) |-> ok[i].arg]

\* C23: the k-th pre-signed URL gets the view {table}_part_{k-1 on four
\* digits}, so distinct URLs get distinct names; a statement that fails is
\* followed by the statement for the next URL; a partition view that was
\* created reads its own URL; and once some partition view exists the
\* UNION ALL statement is issued and the table's view it creates is over
\* exactly the partition views that were created, in order.
C23_PerPartitionUnion ==
    /\ \A k \in 1..Len(PartEvents) :
          PartEvents[k].arg = att.table_name \o <<"_part_">> \o Pad4(k - 1)
    /\ \A j, k \in 1..Len(PartEvents) : j # k => PartEvents[j].arg # PartEvents[k].arg
    /\ \A i \in DOMAIN log :
          (Failed(i, "part_view") /\ Count("part_view") < Len(att.urls)) =>
             IF i = Len(log) THEN att.pc = "parts" ELSE log[i + 1].ev = "part_view"
    /\ \A k \in 1..Len(PartEvents) :
          PartEvents[k].res = "ok" =>
             \E v \in con.views :
                v.name = PartEvents[k].arg /\ v.kind = "url" /\ v.src = att.urls[k]
    /\ (att.pc = "done" /\ CreatedParts # <<>>) => Count("union_view") = 1
    /\ \A i \in DOMAIN log :
          Succeeded(i, "union_view") =>
             \E v \in con.views :
                v.name = att.table_name /\ v.kind = "union" /\ v.src = CreatedParts

\* C23 witness: of three partition statements the middle one failed, and the
\* union over the other two was created.
C23_Witness ==
    /\ Len(PartEvents) = 3
    /\ PartEvents[1].res = "ok"
    /\ PartEvents[2].res # "ok"
    /\ PartEvents[3].res = "ok"
    /\ Succeeded(Len(log), "union_view")

\* the strategies a construction attempted, each with the reason it failed:
\* the exception of its statement, or that no key could be presigned
Attempted ==
    LET failures == SelectSeq(log, LAMBDA e :
                        e.ev \in {"glob_view", "unified_view", "union_view"}
                        /\ e.res # "ok")
        views == [i \in 1..Len(failures) |->
                     [strategy |-> Stage(failures[i]), reason |-> failures[i].res]]
    IN IF Count("presign") > 0 /\ PresignedOk = <<>>
       THEN Append(views, [strategy |-> 2, reason |-> "Exception"])
       ELSE views

\* C24: an AttachmentFailed error that reaches the caller carries the list
\* of the strategies attempted and the failure reason of each.
C24_ErrorCarriesAttempts ==
    (att.pc = "done" /\ att.outcome = "raised" /\ att.error = "AttachmentFailed")
    => /\ att.attempts # <<>>
       /\ att.attempts = Attempted

\* the statements that create a view
IsViewStatement(e) == e.ev \in {"glob_view", "unified_view", "part_view", "union_view"}

\* C25: every statement that creates a view is CREATE OR REPLACE VIEW, and
\* every one that selects from read_parquet (glob, one URL, URL array, URL of
\* one partition) passes hive_partitioning=true and union_by_name=true.
C25_StatementForm ==
    \A i \in DOMAIN log :
        IsViewStatement(log[i]) =>
            /\ log[i].sql.verb = "CREATE OR REPLACE VIEW"
            /\ log[i].sql.name = log[i].arg
            /\ log[i].ev # "union_view" =>
                  /\ log[i].sql.source = "read_parquet"
                  /\ log[i].sql.hive_partitioning
                  /\ log[i].sql.union_by_name

\* C25 witness: a construction issued the glob statement, the URL-array
\* statement, partition statements and the union statement.
C25_Witness ==
    /\ Count("glob_view") = 1
    /\ Count("unified_view") = 1
    /\ Len(att.urls) >= 2
    /\ Count("part_view") >= 2
    /\ Count("union_view") = 1

\* C27: when the constructor ends with an error (no parquet file found, no
\* key presigned), the connection it opened is closed by the time the error
\* is with the caller; an open connection belongs to a handle the caller
\* was given.
C27_ClosedOnError ==
    /\ (att.pc = "done" /\ att.outcome = "raised") => ~con.open
    /\ con.open => att.pc # "idle"

-----------------------------------------------------------------------------
(* Properties of the path resolver, stated for PathSpec.                   *)

\* The storage path format written out segment by segment, left to right.
RECURSIVE AppendSegments(_, _)
AppendSegments(base, items) ==
    IF items = <<>> THEN base
    ELSE AppendSegments(base \o <<"/">> \o items[1][1] \o <<"=">> \o items[1][2],
                        Tail(items))

StoragePathFormat(in) ==
    LET table_dir == <<"catalog-data", "/">> \o in.organization \o <<"/">>
                     \o in.dataset \o <<"/">> \o in.table
        items == IF in.partitions = None THEN <<>> ELSE in.partitions
    IN AppendSegments(table_dir, items) \o <<"/", "data", ".parquet">>

\* C9: for the same ref, two distinct ordered partition mappings never yield
\* the same storage path (get_parquet_path is injective in the partitions).
C9_Injective ==
    ( /\ resA # None /\ resB # None
      /\ pathA.organization = pathB.organization
      /\ pathA.dataset = pathB.dataset
      /\ pathA.table = pathB.table
      /\ pathA.partitions # None /\ pathB.partitions # None
      /\ pathA.partitions # pathB.partitions )
    => resA # resB

\* C10: the path is catalog-data/{organization}/{dataset}/{table}/data.parquet
\* when partitions is absent or empty, and otherwise carries one k=v segment
\* per partition item, in the order of the caller's mapping.
C10_PathFormat ==
    /\ resA # None => resA = StoragePathFormat(pathA)
    /\ resB # None => resB = StoragePathFormat(pathB)

\* C10 witness: a path was resolved for a two-item mapping whose keys are
\* not in alphabetical order, and one for an absent mapping.
C10_Witness ==
    /\ resA # None /\ pathA.partitions # None /\ Len(pathA.partitions) = 2
    /\ LexLess(pathA.partitions[2][1], pathA.partitions[1][1])
    /\ resB # None /\ pathB.partitions = None

\* C11: a reference whose organization, dataset or table is empty is
\* rejected with InvalidIdentifier; no path is returned for it.
EmptyIdentifier(in) == in.organization = <<>> \/ in.dataset = <<>> \/ in.table = <<>>

C11_RejectsEmpty ==
    /\ (resA # None /\ EmptyIdentifier(pathA)) => resA = "InvalidIdentifier"
    /\ (resB # None /\ EmptyIdentifier(pathB)) => resB = "InvalidIdentifier"

-----------------------------------------------------------------------------
(* Properties of writes and reads, stated for DataSpec.                    *)

\* the frame a write hands to the serializer: the caller's frame, and for
\* every partition item the literal value in each row under the partition
\* key, in place when the frame has such a column and as a new last column
\* otherwise
NewKeys(df, partitions) ==
    SelectSeq([i \in 1..Len(partitions) |-> partitions[i][1]],
              LAMBDA k : \A c \in 1..Len(df.columns) : df.columns[c] # k)

Literal(partitions, name) ==
    partitions[CHOOSE i \in 1..Len(partitions) : partitions[i][1] = name][2]

SavedColumns(df, partitions) ==
    IF Truthy(partitions) THEN df.columns \o NewKeys(df, partitions) ELSE df.columns

SavedRows(df, partitions) ==
    [r \in 1..Len(df.rows) |->
        [c \in 1..Len(SavedColumns(df, partitions)) |->
            LET name == SavedColumns(df, partitions)[c]
            IN IF Truthy(partitions)
                  /\ \E i \in 1..Len(partitions) : partitions[i][1] = name
               THEN Literal(partitions, name)
               ELSE df.rows[r][c]]]

\* the payload a put leaves in the store
PayloadOf(call) ==
    IF call.op = "put_bytes" THEN call.data
    ELSE [codec |-> "snappy", columns |-> SavedColumns(call.df, call.partitions),
          rows |-> SavedRows(call.df, call.partitions)]

\* C12: every key that exists holds exactly the payload of the last put
\* addressed to it, whatever was there before and whatever was written to
\* other keys since; no key exists that was never written.
C12_LastWriteOnly ==
    /\ DOMAIN store = DOMAIN lastPut
    /\ \A k \in DOMAIN store : store[k] = PayloadOf(lastPut[k])

\* C12 witness: three keys exist, one of them holds the two-row frame, so a
\* key was written while others existed.
C12_Witness ==
    /\ Cardinality(DOMAIN store) >= 3
    /\ \E k \in DOMAIN store :
          /\ lastPut[k].op = "put_parquet_data"
          /\ lastPut[k].df = FrameAM
          /\ lastPut[k].partitions # None

\* the read made last asked for the partition of a table that was written
\* last with the same partition mapping
ReadKey == get_parquet_path(Org, Dataset, rd.table, rd.partitions)

ReadOfLastWrite ==
    /\ rd.pc = "done"
    /\ Truthy(rd.partitions)
    /\ ReadKey \in DOMAIN lastPut
    /\ lastPut[ReadKey].op = "put_parquet_data"
    /\ lastPut[ReadKey].table = rd.table
    /\ lastPut[ReadKey].partitions = rd.partitions

WrittenFrame == lastPut[ReadKey].df

\* C13 as stated: reading a partition back returns the written frame with
\* one column appended per partition key, holding the literal value in
\* every row.
C13_RoundTripAppended ==
    ReadOfLastWrite =>
        /\ rd.res.outcome = "returned"
        /\ rd.res.value.columns
             = WrittenFrame.columns
               \o [i \in 1..Len(rd.partitions) |-> rd.partitions[i][1]]
        /\ rd.res.value.rows
             = [r \in 1..Len(WrittenFrame.rows) |->
                   WrittenFrame.rows[r]
                   \o [i \in 1..Len(rd.partitions) |-> rd.partitions[i][2]]]

\* C13 amended: reading a partition back returns the written frame where
\* each partition key that is not yet a column is appended as a column, and
\* each partition key that already is a column keeps its place; either way
\* the column holds the literal value in every row.  All other columns and
\* values are those of the written frame.
C13_RoundTrip ==
    ReadOfLastWrite =>
        /\ rd.res.outcome = "returned"
        /\ rd.res.value.columns = SavedColumns(WrittenFrame, rd.partitions)
        /\ rd.res.value.rows = SavedRows(WrittenFrame, rd.partitions)

\* C13 witness: a frame with a column "a" was written under {a: b, k: v} and
\* read back.
C13_Witness ==
    /\ ReadOfLastWrite
    /\ WrittenFrame = FrameAM
    /\ rd.partitions = <<ItemAB, ItemKV>>

\* the read made last asked for all the data of a table
FullRead == rd.pc = "done" /\ ~Truthy(rd.partitions)

\* the objects that writes to the partitions of a table left in the store
Written(table) ==
    {k \in DOMAIN lastPut :
        lastPut[k].op = "put_parquet_data" /\ lastPut[k].table = table}

\* a row as the set of its (column, value) cells that hold a value
RowCells(columns, row) ==
    {<<columns[c], row[c]>> : c \in {i \in 1..Len(columns) : row[i] # NaN}}

\* the rows that the writes named by a sequence of keys stored, in order
RECURSIVE RowsWritten(_)
RowsWritten(ks) ==
    IF ks = <<>> THEN <<>>
    ELSE LET w == lastPut[ks[1]]
         IN [r \in 1..Len(w.df.rows) |->
                RowCells(SavedColumns(w.df, w.partitions),
                         SavedRows(w.df, w.partitions)[r])]
            \o RowsWritten(Tail(ks))

\* C14: a read of a whole table asks for each object written to a partition
\* of that table once, in listing order, and for no other object; it returns
\* the rows of all of them, as many as were written in total.
C14_UnionOfPartitions ==
    FullRead =>
        LET ks == SortKeys(Written(rd.table))
        IN /\ rd.res.outcome = "returned"
           /\ rd.res.keys = ks
           /\ [i \in 1..Len(rd.res.value.rows) |->
                  RowCells(rd.res.value.columns, rd.res.value.rows[i])]
              = RowsWritten(ks)

\* C14 witness: a whole table of three partitions with frames of different
\* columns was read while another table and a foreign object existed.
C14_Witness ==
    /\ FullRead
    /\ rd.table = TableT
    /\ Cardinality(Written(TableT)) >= 3
    /\ Written(TableT2) # {}
    /\ \E k \in OtherKeys : k \in DOMAIN store
    /\ \E j, k \in Written(TableT) : lastPut[j].df # lastPut[k].df
    /\ Len(rd.res.value.rows) >= 4

\* the data files of a table: the objects under its prefix whose key ends in
\* data.parquet
DataFilesOf(table) ==
    {k \in DOMAIN store :
        /\ StartsWith(k, <<"catalog-data", "/">> \o Org \o <<"/">> \o Dataset
                          \o <<"/">> \o table \o <<"/">>)
        /\ EndsWith(k, <<"data", ".parquet">>)}

\* C15: a read of a whole table that has no data file returns a frame of
\* zero rows; it does not raise.
C15_EmptyRead ==
    (FullRead /\ DataFilesOf(rd.table) = {}) =>
        /\ rd.res.outcome = "returned"
        /\ rd.res.value.rows = <<>>
        /\ rd.res.keys = <<>>

\* C15 witness: a table without data files was read while its prefix held a
\* foreign object and another table held data.
C15_Witness ==
    /\ FullRead
    /\ rd.table = TableT
    /\ DataFilesOf(TableT) = {}
    /\ DataFilesOf(TableT2) # {}
    /\ \E k \in OtherKeys : k \in DOMAIN store
    /\ rd.res.outcome = "returned"

\* the one path a read of a partition resolves
PathRead(r) ==
    StoragePathFormat([organization |-> Org, dataset |-> Dataset,
                       table |-> r.table, partitions |-> r.partitions])

\* C16: a read with a partition mapping asks the store for the object at the
\* resolved path and for nothing else; when that object does not exist the
\* read fails with ObjectNotFound, otherwise it returns; the store is the
\* same after the read as before.
C16_ExactPathRead ==
    [][ (rd.pc = "idle" /\ rd'.pc = "done" /\ Truthy(rd'.partitions)) =>
            /\ store' = store
            /\ rd'.res.keys = <<PathRead(rd')>>
            /\ PathRead(rd') \notin DOMAIN store =>
                  rd'.res.outcome = "raised" /\ rd'.res.error = "ObjectNotFound"
            /\ PathRead(rd') \in DOMAIN store =>
                  rd'.res.outcome = "returned" ]_vars

\* C16 witness: the partition {a: b, k: v} was read and is missing while the
\* partition {a: b} of the same table exists.
C16_Witness ==
    /\ rd.pc = "done"
    /\ Truthy(rd.partitions)
    /\ rd.partitions = <<ItemAB, ItemKV>>
    /\ rd.res.outcome = "raised"
    /\ rd.res.error = "ObjectNotFound"
    /\ get_parquet_path(Org, Dataset, rd.table, <<ItemAB>>) \in DOMAIN store

-----------------------------------------------------------------------------
(* Properties of overlapping calls, stated for ConcSpec.                   *)

\* C17: a get_parquet_last_updated call returns the timestamp of the object
\* or "not found" (None); it never ends in an exception for a missing
\* object, whatever writes and deletions of the key happen during the call.
C17_NeverRaises ==
    lm.pc = "done" =>
        /\ lm.outcome = "raised" => lm.error # "ObjectNotFound"
        /\ lm.found => lm.value \in 0..clock

\* C22: a request that meets an unavailable store ends the gateway call with
\* StoreUnavailable; the call does not answer "not found" (None) for it.
C22_TransientPropagates ==
    (lm.pc = "done" /\ lm.faulted) =>
        lm.outcome = "raised" /\ lm.error = "StoreUnavailable"

\* both calls have returned and addressed the same key
BothWrote ==
    /\ \A w \in Writers : wr[w].pc = "done"
    /\ \A v, w \in Writers : wr[v].file_path = wr[w].file_path

\* the call whose put came last
LastWriter == CHOOSE w \in Writers : \A v \in Writers : wr[v].seq <= wr[w].seq

\* C20: two overlapping writes to one key both complete; the object left
\* under the key is the whole payload of the write whose put came last,
\* with nothing of the other one in it.
C20_LastWriterWins ==
    BothWrote =>
        /\ \A w \in Writers : wr[w].outcome = "returned"
        /\ wr[1].file_path \in DOMAIN store =>
              store[wr[1].file_path]
                = PayloadOf([op |-> "put_parquet_data", df |-> wr[LastWriter].df,
                             partitions |-> wr[LastWriter].partitions])

\* C20 witness: two writes of different frames to one key overlapped, the
\* first put happening while the other payload was ready, and the object
\* exists.
C20_Witness ==
    /\ BothWrote
    /\ wr[1].df # wr[2].df
    /\ \E w \in Writers : wr[w].seq = 1 /\ wr[w].racing
    /\ wr[1].file_path \in DOMAIN store

-----------------------------------------------------------------------------
(* Properties of concurrent get_duckdb calls, stated for EngineSpec.       *)

\* a view named {table_name}_part_NNNN
IsPartView(v) == \E k \in 1..Len(v.name) : v.name[k] = "_part_"

\* C26: every get_duckdb / get_duckdb_for_partitions call is on an in-memory
\* database of its own: what is seen through the handle of a call, while it
\* is being built and after it was returned, is exactly the views the call's
\* own statements created, whatever the other calls do meanwhile; no view of
\* another call, leftover partition views included, shows through it and
\* none of its views is replaced by another call.
C26_PrivateConnection ==
    \A c \in Callers :
        ~At(c, "idle") =>
            /\ Views(c) = eng.calls[c].own
            /\ \A b \in Callers \ {c} :
                  ~At(b, "idle") => eng.calls[b].db # eng.calls[c].db

\* C26 witness: two calls for the same table hold their handles at once;
\* the first created partition views and a union view, the second a glob
\* view of the same name, and each sees its own.
C26_Witness ==
    /\ \A c \in Callers : At(c, "done") /\ eng.calls[c].att.outcome = "returned"
    /\ eng.calls[1].att.table_name = eng.calls[2].att.table_name
    /\ \E v \in Views(1) : IsPartView(v)
    /\ \E v \in Views(1) : v.name = eng.calls[1].att.table_name /\ v.kind = "union"
    /\ \E v \in Views(2) : v.name = eng.calls[2].att.table_name /\ v.kind = "glob"
    /\ \A v \in Views(2) : ~IsPartView(v)

-----------------------------------------------------------------------------
(* Properties of what is read and what is listed, stated for ListSpec.     *)

Range(f) == {f[i] : i \in DOMAIN f}

\* the listing of a get_duckdb call was done; the store is as it was then
\* (no write while a construction is in progress or its handle is held)
Listed == att.via = "get_duckdb" /\ \E i \in DOMAIN log : log[i].ev = "list"

\* the objects get_parquet_data(ref) without partitions asks the store for
ReadKeys(table) == Range(get_parquet_data(store, Org, Dataset, table, None).keys)

\* C28: on the same store contents, every object that the read without
\* partitions reads is among the files the presigned-URL strategy of
\* get_duckdb enumerates for the same table.
C28_ReadWithinListing ==
    Listed => ReadKeys(att.table) \subseteq Range(att.files)

\* C28 witness: the listing was done on a store where the read itself was
\* made; both found data.parquet files, one of them in a partition, and the
\* listing found a parquet file more.
C28_Witness ==
    /\ Listed
    /\ rd.pc = "done" /\ rd.table = att.table /\ ~Truthy(rd.partitions)
    /\ Range(rd.res.keys) = ReadKeys(att.table)
    /\ Cardinality(Range(rd.res.keys)) >= 2
    /\ Range(rd.res.keys) \subseteq Range(att.files)
    /\ Range(att.files) # Range(rd.res.keys)

\* catalog-data/{organization}/{dataset}/{table}/, closing slash included
UnderTable(table, key) ==
    StartsWith(key, <<"catalog-data", "/">> \o Org \o <<"/">> \o Dataset \o <<"/">>
                    \o table \o <<"/">>)

\* the keys a view reads: those its glob pattern matches or those of its URLs
ViewKeys(v) ==
    IF v.kind = "glob" THEN GlobMatches(store, att.parquet_prefix)
    ELSE IF v.kind = "url" THEN {v.src.key}
    ELSE IF v.kind = "array" THEN {v.src[i].key : i \in DOMAIN v.src}
    ELSE {}

\* C29: the read without partitions and a get_duckdb call touch only keys
\* under catalog-data/{organization}/{dataset}/{table}/: every key the read
\* asks for, and every key the call lists, presigns or attaches, starts with
\* that prefix, so the objects of a table whose name begins with this
\* table's name are left out.
C29_TableIsolation ==
    /\ (rd.pc = "done" /\ ~Truthy(rd.partitions)) =>
           \A k \in Range(rd.res.keys) : UnderTable(rd.table, k)
    /\ att.via = "get_duckdb" =>
           /\ \A k \in Range(att.files) : UnderTable(att.table, k)
           /\ \A i \in DOMAIN log :
                 log[i].ev = "presign" => UnderTable(att.table, log[i].arg)
           /\ \A i \in DOMAIN att.urls : UnderTable(att.table, att.urls[i].key)
           /\ \A v \in con.views : \A k \in ViewKeys(v) : UnderTable(att.table, k)

\* C29 witness: the store holds data.parquet of t and of t2; the read of t
\* and the get_duckdb call for t both found the file of t, and the call
\* attached a view over its URL.
C29_Witness ==
    /\ get_parquet_path(Org, Dataset, TableT2, None) \in DOMAIN store
    /\ get_parquet_path(Org, Dataset, TableT, None) \in DOMAIN store
    /\ rd.pc = "done" /\ rd.table = TableT /\ ~Truthy(rd.partitions)
    /\ rd.res.keys # <<>>
    /\ Listed /\ att.table = TableT
    /\ att.pc = "done" /\ att.outcome = "returned"
    /\ \E v \in con.views : v.kind \in {"url", "array"}

-----------------------------------------------------------------------------
(* Properties of the caller's frame, stated for FrameSpec.                 *)

\* C30: put_parquet_data leaves the frame of its caller as it was: after a
\* call, returned or raised, the caller's frame has the columns, the rows
\* and the index it had before, and a call made again with that frame under
\* other partitions serializes the first frame with the partition columns
\* of that call only.
C30_CallerFrameKept ==
    \A w \in Writers :
        wr[w].pc = "done" =>
            /\ wr[w].df = wr[w].given
            /\ wr[w].df = wr[w].first
            /\ wr[w].data = ToParquet(IF Truthy(wr[w].partitions)
                                      THEN AddPartitionColumns(wr[w].first,
                                                               wr[w].partitions)
                                      ELSE wr[w].first)

\* C30 witness: a caller handed its frame to a write under {a: b, k: v},
\* and wrote the same frame again under no partitions; the object
\* written last has the columns of the frame and no column k.
C30_Witness ==
    \E w \in Writers :
        /\ wr[w].pc = "done"
        /\ wr[w].calls = 2
        /\ wr[w].partitions = None
        /\ wr[w].outcome = "returned"
        /\ wr[w].earlier = get_parquet_path(Org, Dataset, TableT, <<ItemAB, ItemKV>>)
        /\ wr[w].data.columns = wr[w].first.columns
        /\ wr[w].first = FrameAM


====
